---- MODULE Spec2Model ----
(***************************************************************************)
(* A model of the option-merging core of Vue 2 as kept in this repository: *)
(*   src/src/core/util/options.js   strategies, normalizers, mergeOptions  *)
(*   src/src/core/instance/init.js  resolveConstructorOptions              *)
(*   src/unnamed/part_000           initGlobalAPI (the root Vue.options)   *)
(*   src/unnamed/part_001           Vue.mixin                              *)
(*                                                                         *)
(* JavaScript objects live in a heap (a sequence of objects, a reference   *)
(* is an index), so that identity (===), aliasing and in-place mutation    *)
(* are what they are in the program.  Every function of the source that    *)
(* allocates or mutates takes the heap and returns the new heap together   *)
(* with its return value.                                                  *)
(***************************************************************************)
EXTENDS Integers, Sequences, FiniteSets, TLC

VARIABLES heap, ctor, hist, nMixin, nEdit, edited, declared, pc, arg, out, step

vars == <<heap, ctor, hist, nMixin, nEdit, edited, declared, pc, arg, out, step>>

\* the state of the lineage of constructors, and the state of a single call
lineageVars == <<ctor, hist, nMixin, nEdit, edited, declared>>
callVars == <<pc, arg, out, step>>

(***************************************************************************)
(* Bounds of the model.                                                    *)
(***************************************************************************)
MaxMixin == 2
MaxEdit == 1
MaxHookLen == 2
MaxChain == 3
MaxCalls == 2
MaxRegister == 1
MaxNormalize == 2

(***************************************************************************)
(* JavaScript values.  Arrays are immutable in all the code modelled (it   *)
(* only reads them, concat and dedupeHooks build new ones), so an array is *)
(* a value; objects and closures are heap references.                      *)
(***************************************************************************)
Undef == [t |-> "undef"]
Prim(n) == [t |-> "prim", v |-> n]
Str(s) == [t |-> "str", s |-> s]
Fn(n) == [t |-> "fn", v |-> n]
Arr(s) == [t |-> "arr", items |-> s]
Ref(n) == [t |-> "ref", v |-> n]
CtorV(c) == [t |-> "ctor", c |-> c]
Opaque(s) == [t |-> "opaque", s |-> s]
Null == [t |-> "null"]

EmptyMap == [k \in {} |-> Undef]

\* Let(e, F) is F(e) with e evaluated once, before F: the way a JavaScript
\* statement `const x = e` evaluates e once however often x is read.
Let(e, F(_)) == CHOOSE r \in {F(x) : x \in {e}} : TRUE

\* A plain object: {} has Object.prototype (no enumerable keys) as prototype,
\* Object.create(null) has none; neither has enumerable inherited keys.
NewObj(proto, own) == [kind |-> "obj", proto |-> proto, own |-> own]

\* !v of JavaScript, negated
Truthy(v) == v # Undef /\ v # Null /\ v # Prim(0) /\ v # Str("")

IsRef(v) == v.t = "ref"

\* The order in which the model walks key sets (for..in, Object.keys).  No
\* result of the code modelled depends on it; it only fixes the order of
\* allocation.
KeySeq ==
    << "_base", "components", "directives", "filters", "name", "extends",
       "mixins", "el", "f", "g", "created", "data", "provide", "props",
       "inject", "methods", "watch",
       "KeepAlive", "kid", "my-widget", "myWidget", "MyWidget",
       "some-data", "someData", "a", "b", "n", "x", "y",
       "type", "from", "bind", "update", "parentVal", "childVal", "vm",
       "mounted", "propsData", "computed", "__ob__" >>

SeqOfKeys(S0) == Let(S0, LAMBDA S : SelectSeq(KeySeq, LAMBDA k : k \in S))

Alloc(h, o) == [h |-> Append(h, o), v |-> Ref(Len(h) + 1)]

OwnKeys(h, r) == DOMAIN h[r.v].own

hasOwn(h, r, k) == IsRef(r) /\ k \in OwnKeys(h, r)

\* r[k]: own property, else along the prototype chain
RECURSIVE Get(_, _, _)
Get(h, r, k) ==
    IF ~IsRef(r) THEN Undef
    ELSE IF k \in OwnKeys(h, r) THEN h[r.v].own[k]
    ELSE Get(h, h[r.v].proto, k)

\* the keys for (key in r) visits: own and inherited
RECURSIVE ForIn(_, _)
ForIn(h, r) ==
    IF ~IsRef(r) THEN {}
    ELSE OwnKeys(h, r) \cup ForIn(h, h[r.v].proto)

\* r[k] = v
Put(h, r, k, v) == [h EXCEPT ![r.v].own = (k :> v) @@ @]

isPlainObject(h, v) == IsRef(v) /\ h[v.v].kind = "obj"

isFunction(h, v) ==
    \/ v.t \in {"fn", "ctor"}
    \/ IsRef(v) /\ h[v.v].kind \in {"mergedDataFn", "mergedInstanceDataFn"}

isArray(v) == v.t = "arr"

\* extend(to, _from): for (const key in _from) to[key] = _from[key]
RECURSIVE extendKeys(_, _, _, _)
extendKeys(h0, to, from, ks) ==
    Let(h0, LAMBDA h :
        IF ks = << >> THEN h
        ELSE extendKeys(Put(h, to, Head(ks), Get(h, from, Head(ks))), to, from,
                        Tail(ks)))

extend(h, to, from) == extendKeys(h, to, from, SeqOfKeys(ForIn(h, from)))

(***************************************************************************)
(* Default strategy.                                                       *)
(***************************************************************************)
defaultStrat(parentVal, childVal) ==
    IF childVal = Undef THEN parentVal ELSE childVal

(***************************************************************************)
(* Hooks are merged as arrays.                                             *)
(***************************************************************************)
\* indexOf(x) === -1
NotIn(s, x) == \A i \in 1..Len(s) : s[i] # x

RECURSIVE dedupeFrom(_, _)
dedupeFrom(res0, hooks) ==
    Let(res0, LAMBDA res :
        IF hooks = << >> THEN res
        ELSE dedupeFrom(IF NotIn(res, Head(hooks)) THEN Append(res, Head(hooks))
                        ELSE res,
                        Tail(hooks)))

\* a dedupeHooks that removes nothing
dedupeHooks_Keep(hooks) == hooks

dedupeHooks(hooks) == dedupeFrom(<< >>, hooks)

\* Array.prototype.concat(x): an array argument is spread, anything else appended
concat(a, x) == Arr(a.items \o (IF isArray(x) THEN x.items ELSE << x >>))

mergeHook(parentVal, childVal) ==
    Let(IF Truthy(childVal)
        THEN IF Truthy(parentVal)
             THEN concat(parentVal, childVal)
             ELSE IF isArray(childVal) THEN childVal ELSE Arr(<< childVal >>)
        ELSE parentVal,
        LAMBDA res : IF Truthy(res) THEN Arr(dedupeHooks(res.items)) ELSE res)

(***************************************************************************)
(* Assets: the result delegates to the parent's table by prototype.        *)
(***************************************************************************)
\* a mergeAssets that copies the child's entries into the parent's table
mergeAssets_InPlace(h, parentVal, childVal) ==
    IF Truthy(parentVal) /\ Truthy(childVal)
    THEN [h |-> extend(h, parentVal, childVal), v |-> parentVal]
    ELSE Alloc(h, NewObj(IF Truthy(parentVal) THEN parentVal ELSE Null, EmptyMap))

\* a mergeAssets that copies the parent's entries instead of delegating
mergeAssets_Copy(h, parentVal, childVal) ==
    Let(Alloc(h, NewObj(Null, EmptyMap)), LAMBDA res :
    Let(IF Truthy(parentVal) THEN extend(res.h, res.v, parentVal) ELSE res.h, LAMBDA h1 :
        [h |-> IF Truthy(childVal) THEN extend(h1, res.v, childVal) ELSE h1,
         v |-> res.v]))

mergeAssets(h, parentVal, childVal) ==
    Let(Alloc(h, NewObj(IF Truthy(parentVal) THEN parentVal ELSE Null, EmptyMap)),
        LAMBDA res :
            IF Truthy(childVal)
            THEN [h |-> extend(res.h, res.v, childVal), v |-> res.v]
            ELSE res)

(***************************************************************************)
(* Watchers are merged as arrays, key by key.                              *)
(***************************************************************************)
\* a watchKeys that puts the child's handlers first
RECURSIVE watchKeys_ChildFirst(_, _, _, _)
watchKeys_ChildFirst(h0, ret, childVal, ks) ==
    Let(h0, LAMBDA h :
        IF ks = << >> THEN h
        ELSE LET key == Head(ks)
                 parent0 == Get(h, ret, key)
                 child0 == Get(h, childVal, key)
                 child == IF isArray(child0) THEN child0 ELSE Arr(<< child0 >>)
                 val == IF Truthy(parent0) THEN concat(child, parent0) ELSE child
             IN  watchKeys_ChildFirst(Put(h, ret, key, val), ret, childVal, Tail(ks)))

RECURSIVE watchKeys(_, _, _, _)
watchKeys(h0, ret, childVal, ks) ==
    Let(h0, LAMBDA h :
        IF ks = << >> THEN h
        ELSE LET key == Head(ks)
                 parent0 == Get(h, ret, key)
                 child == Get(h, childVal, key)
                 parent == IF Truthy(parent0) /\ ~isArray(parent0)
                           THEN Arr(<< parent0 >>) ELSE parent0
                 val == IF Truthy(parent) THEN concat(parent, child)
                        ELSE IF isArray(child) THEN child ELSE Arr(<< child >>)
             IN  watchKeys(Put(h, ret, key, val), ret, childVal, Tail(ks)))

\* nativeWatch (Firefox's Object.prototype.watch) is undefined on the engines
\* modelled, so the two comparisons with it change nothing.
stratWatch(h, parentVal, childVal) ==
    IF ~Truthy(childVal)
    THEN Alloc(h, NewObj(IF Truthy(parentVal) THEN parentVal ELSE Null, EmptyMap))
    ELSE IF ~Truthy(parentVal) THEN [h |-> h, v |-> childVal]
    ELSE Let(Alloc(h, NewObj(Null, EmptyMap)), LAMBDA ret :
         Let(extend(ret.h, ret.v, parentVal), LAMBDA h1 :
             [h |-> watchKeys(h1, ret.v, childVal, SeqOfKeys(ForIn(h1, childVal))),
              v |-> ret.v]))

(***************************************************************************)
(* props, methods, inject, computed: a shallow union, the child wins.      *)
(***************************************************************************)
stratHash(h, parentVal, childVal) ==
    IF ~Truthy(parentVal) THEN [h |-> h, v |-> childVal]
    ELSE Let(Alloc(h, NewObj(Null, EmptyMap)), LAMBDA ret :
         Let(extend(ret.h, ret.v, parentVal), LAMBDA h1 :
             [h |-> IF Truthy(childVal) THEN extend(h1, ret.v, childVal) ELSE h1,
              v |-> ret.v]))

(***************************************************************************)
(* Data and provide: a factory that merges the two sides when invoked.     *)
(***************************************************************************)
\* What the callables of the inputs return: each call builds a new object,
\* with a new nested object under "n" where the body has one.
\*   Fn(1): function () { return { a: 1 } }
\*   Fn(2): function () { return { b: 2, n: { x: 1 } } }
\*   Fn(3): function () { return { a: 3, n: { y: 2 } } }
FnBody(n) ==
    CASE n = 1 -> [own |-> "a" :> Prim(1), sub |-> EmptyMap]
      [] n = 2 -> [own |-> "b" :> Prim(2), sub |-> "x" :> Prim(1)]
      [] OTHER -> [own |-> "a" :> Prim(3), sub |-> "y" :> Prim(2)]

\* allocate the object literal `body`
AllocBody(h, body) ==
    IF body.sub = EmptyMap THEN Alloc(h, NewObj(Null, body.own))
    ELSE Let(Alloc(h, NewObj(Null, body.sub)), LAMBDA n :
             Alloc(n.h, NewObj(Null, ("n" :> n.v) @@ body.own)))

\* a mergeData that lets from's values overwrite to's
mergeData_Overwrite(h, to, from) ==
    IF ~Truthy(from) THEN h ELSE extend(h, to, from)

RECURSIVE mergeData(_, _, _)
RECURSIVE mergeDataKeys(_, _, _, _)
mergeDataKeys(h0, to, from, ks) ==
    Let(h0, LAMBDA h :
        IF ks = << >> THEN h
        ELSE LET key == Head(ks)
                 toVal == Get(h, to, key)
                 fromVal == Get(h, from, key)
             IN  mergeDataKeys(
                     IF key = "__ob__" THEN h
                     ELSE IF ~hasOwn(h, to, key) THEN Put(h, to, key, fromVal)
                     ELSE IF toVal # fromVal /\ isPlainObject(h, toVal)
                             /\ isPlainObject(h, fromVal)
                          THEN mergeData(h, toVal, fromVal)
                          ELSE h,
                     to, from, Tail(ks)))

\* returns the heap; the value returned by the code is `to`
mergeData(h, to, from) ==
    IF ~Truthy(from) THEN h
    ELSE mergeDataKeys(h, to, from, SeqOfKeys(OwnKeys(h, from)))

mergeDataOrFn(h, parentVal, childVal, vm) ==
    IF ~Truthy(vm)
    THEN IF ~Truthy(childVal) THEN [h |-> h, v |-> parentVal]
         ELSE IF ~Truthy(parentVal) THEN [h |-> h, v |-> childVal]
         ELSE Alloc(h, [kind |-> "mergedDataFn", proto |-> Null,
                        own |-> ("parentVal" :> parentVal) @@ ("childVal" :> childVal)])
    ELSE Alloc(h, [kind |-> "mergedInstanceDataFn", proto |-> Null,
                   own |-> ("parentVal" :> parentVal) @@ ("childVal" :> childVal)
                           @@ ("vm" :> vm)])

\* f.call(this, this) for the callables of the model: a callable of the inputs,
\* mergedDataFn or mergedInstanceDataFn
RECURSIVE Call(_, _)
Call(h, f) ==
    IF f.t = "fn" THEN AllocBody(h, FnBody(f.v))
    ELSE LET childVal == h[f.v].own["childVal"]
             parentVal == h[f.v].own["parentVal"]
         IN  Let(IF isFunction(h, childVal) THEN Call(h, childVal)
                 ELSE [h |-> h, v |-> childVal], LAMBDA c :
             Let(IF isFunction(c.h, parentVal) THEN Call(c.h, parentVal)
                 ELSE [h |-> c.h, v |-> parentVal], LAMBDA p :
                 IF h[f.v].kind = "mergedDataFn"
                 THEN [h |-> mergeData(p.h, c.v, p.v), v |-> c.v]
                 ELSE IF Truthy(c.v)
                      THEN [h |-> mergeData(p.h, c.v, p.v), v |-> c.v]
                      ELSE p))

\* a strats.data that accepts a child that is not a function
stratData_NoGuard(h, parentVal, childVal, vm) ==
    mergeDataOrFn(h, parentVal, childVal, vm)

stratData(h, parentVal, childVal, vm) ==
    IF ~Truthy(vm)
    THEN IF Truthy(childVal) /\ ~isFunction(h, childVal)
         THEN [h |-> h, v |-> parentVal]
         ELSE mergeDataOrFn(h, parentVal, childVal, Undef)
    ELSE mergeDataOrFn(h, parentVal, childVal, vm)

(***************************************************************************)
(* The strategy table.                                                     *)
(***************************************************************************)
LIFECYCLE_HOOKS == {"created", "mounted"}
ASSET_KEYS == {"components", "directives", "filters"}

strat(h, key, parentVal, childVal, vm) ==
    CASE key \in {"el", "propsData"} -> [h |-> h, v |-> defaultStrat(parentVal, childVal)]
      [] key = "data" -> stratData(h, parentVal, childVal, vm)
      [] key \in LIFECYCLE_HOOKS -> [h |-> h, v |-> mergeHook(parentVal, childVal)]
      [] key \in ASSET_KEYS -> mergeAssets(h, parentVal, childVal)
      [] key = "watch" -> stratWatch(h, parentVal, childVal)
      [] key \in {"props", "methods", "inject", "computed"} ->
            stratHash(h, parentVal, childVal)
      [] key = "provide" -> mergeDataOrFn(h, parentVal, childVal, vm)
      [] OTHER -> [h |-> h, v |-> defaultStrat(parentVal, childVal)]

(***************************************************************************)
(* The normalizers: they rewrite the child's fields in place.              *)
(***************************************************************************)
\* camelize and capitalize of shared/util on the names of the model
camelize(s) ==
    CASE s = "my-widget" -> "myWidget"
      [] s = "some-data" -> "someData"
      [] OTHER -> s

RECURSIVE propsFromArray(_, _, _, _)
propsFromArray(h0, res, items, i) ==
    Let(h0, LAMBDA h :
        IF i = 0 THEN h
        ELSE IF items[i].t = "str"
             THEN Let(Alloc(h, NewObj(Null, "type" :> Null)), LAMBDA o :
                      propsFromArray(Put(o.h, res, camelize(items[i].s), o.v), res,
                                     items, i - 1))
             ELSE propsFromArray(h, res, items, i - 1))

\* a propsFromObject that wraps every value, a plain object too, into { type }
RECURSIVE propsFromObject_Wrap(_, _, _, _)
propsFromObject_Wrap(h0, res, props, ks) ==
    Let(h0, LAMBDA h :
        IF ks = << >> THEN h
        ELSE Let(Alloc(h, NewObj(Null, "type" :> Get(h, props, Head(ks)))), LAMBDA o :
                 propsFromObject_Wrap(Put(o.h, res, camelize(Head(ks)), o.v), res,
                                      props, Tail(ks))))

RECURSIVE propsFromObject(_, _, _, _)
propsFromObject(h0, res, props, ks) ==
    Let(h0, LAMBDA h :
        IF ks = << >> THEN h
        ELSE LET key == Head(ks)
                 val == Get(h, props, key)
             IN  Let(IF isPlainObject(h, val) THEN [h |-> h, v |-> val]
                     ELSE Alloc(h, NewObj(Null, "type" :> val)), LAMBDA o :
                     propsFromObject(Put(o.h, res, camelize(key), o.v), res, props,
                                     Tail(ks))))

normalizeProps(h, options) ==
    LET props == Get(h, options, "props")
    IN  IF ~Truthy(props) THEN h
        ELSE Let(Alloc(h, NewObj(Null, EmptyMap)), LAMBDA res :
             Let(IF isArray(props)
                 THEN propsFromArray(res.h, res.v, props.items, Len(props.items))
                 ELSE IF isPlainObject(h, props)
                      THEN propsFromObject(res.h, res.v, props,
                                           SeqOfKeys(ForIn(h, props)))
                      ELSE res.h, LAMBDA h1 :
                 Put(h1, options, "props", res.v)))

RECURSIVE injectFromArray(_, _, _)
injectFromArray(h0, normalized, items) ==
    Let(h0, LAMBDA h :
        IF items = << >> THEN h
        ELSE Let(Alloc(h, NewObj(Null, "from" :> Head(items))), LAMBDA o :
                 injectFromArray(Put(o.h, normalized, Head(items).s, o.v), normalized,
                                 Tail(items))))

RECURSIVE injectFromObject(_, _, _, _)
injectFromObject(h0, normalized, inject, ks) ==
    Let(h0, LAMBDA h :
        IF ks = << >> THEN h
        ELSE LET key == Head(ks)
                 val == Get(h, inject, key)
             IN  Let(IF isPlainObject(h, val)
                     THEN Let(Alloc(h, NewObj(Null, "from" :> Str(key))), LAMBDA n :
                              [h |-> extend(n.h, n.v, val), v |-> n.v])
                     ELSE Alloc(h, NewObj(Null, "from" :> val)), LAMBDA o :
                     injectFromObject(Put(o.h, normalized, key, o.v), normalized,
                                      inject, Tail(ks))))

normalizeInject(h, options) ==
    LET inject == Get(h, options, "inject")
    IN  IF ~Truthy(inject) THEN h
        ELSE Let(Alloc(h, NewObj(Null, EmptyMap)), LAMBDA n :
             Let(Put(n.h, options, "inject", n.v), LAMBDA h1 :
                 IF isArray(inject) THEN injectFromArray(h1, n.v, inject.items)
                 ELSE IF isPlainObject(h, inject)
                      THEN injectFromObject(h1, n.v, inject,
                                            SeqOfKeys(ForIn(h, inject)))
                      ELSE h1))

RECURSIVE directiveKeys(_, _, _)
directiveKeys(h0, dirs, ks) ==
    Let(h0, LAMBDA h :
        IF ks = << >> THEN h
        ELSE LET def == Get(h, dirs, Head(ks))
             IN  IF isFunction(h, def)
                 THEN Let(Alloc(h, NewObj(Null, ("bind" :> def) @@ ("update" :> def))),
                          LAMBDA o :
                          directiveKeys(Put(o.h, dirs, Head(ks), o.v), dirs, Tail(ks)))
                 ELSE directiveKeys(h, dirs, Tail(ks)))

normalizeDirectives(h, options) ==
    LET dirs == Get(h, options, "directives")
    IN  IF Truthy(dirs) THEN directiveKeys(h, dirs, SeqOfKeys(ForIn(h, dirs))) ELSE h

(***************************************************************************)
(* mergeOptions.  The model's children are option objects (the branch for  *)
(* a constructor given as child, child = child.options, is not entered).   *)
(* Returns the heap, the result v and, for the record, the parent the      *)
(* fields were merged with (parent after extends and mixins).              *)
(***************************************************************************)
RECURSIVE mergeFieldKeys(_, _, _, _, _, _)
mergeFieldKeys(h0, options, parent, child, vm, ks) ==
    Let(h0, LAMBDA h :
        IF ks = << >> THEN h
        ELSE Let(strat(h, Head(ks), Get(h, parent, Head(ks)), Get(h, child, Head(ks)),
                       vm), LAMBDA r :
                 mergeFieldKeys(Put(r.h, options, Head(ks), r.v), options, parent,
                                child, vm, Tail(ks))))

\* only the first loop: the keys of the parent
mergedKeys_ParentOnly(h, parent, child) == SeqOfKeys(ForIn(h, parent))

\* the keys mergeField is called with: for (key in parent), then for (key in
\* child) if (!hasOwn(parent, key))
mergedKeys(h, parent, child) ==
    SeqOfKeys(ForIn(h, parent))
        \o SeqOfKeys({k \in ForIn(h, child) : ~hasOwn(h, parent, k)})

RECURSIVE mergeOptions(_, _, _, _)

\* a mixins loop that runs from the last mixin to the first
RECURSIVE foldMixins_Reversed(_, _, _, _)
foldMixins_Reversed(h, parent, ms, vm) ==
    IF ms = << >> THEN [h |-> h, v |-> parent]
    ELSE Let(mergeOptions(h, parent, ms[Len(ms)], vm), LAMBDA r :
             foldMixins_Reversed(r.h, r.v, SubSeq(ms, 1, Len(ms) - 1), vm))

RECURSIVE foldMixins(_, _, _, _)
foldMixins(h, parent, ms, vm) ==
    IF ms = << >> THEN [h |-> h, v |-> parent]
    ELSE Let(mergeOptions(h, parent, Head(ms), vm), LAMBDA r :
             foldMixins(r.h, r.v, Tail(ms), vm))

mergeOptions(h, parent0, child, vm) ==
    Let(normalizeProps(h, child), LAMBDA h1 :
    Let(normalizeInject(h1, child), LAMBDA h2 :
    Let(normalizeDirectives(h2, child), LAMBDA h3 :
        LET raw == ~Truthy(Get(h3, child, "_base"))
            ext == Get(h3, child, "extends")
        IN
    Let(IF raw /\ Truthy(ext)
        THEN mergeOptions(h3, parent0, ext, vm)
        ELSE [h |-> h3, v |-> parent0], LAMBDA e :
        LET mix == Get(e.h, child, "mixins")
        IN
    Let(IF raw /\ Truthy(mix) THEN foldMixins(e.h, e.v, mix.items, vm) ELSE e,
        LAMBDA m :
    Let(Alloc(m.h, NewObj(Null, EmptyMap)), LAMBDA options :
        [h |-> mergeFieldKeys(options.h, options.v, m.v, child, vm,
                              mergedKeys(options.h, m.v, child)),
         v |-> options.v,
         parent |-> m.v]))))))

(***************************************************************************)
(* The constructors.  Vue is the root; A = Vue.extend(..), B = A.extend(..)*)
(***************************************************************************)
Vue == 1
CtorA == 2
CtorB == 3
Ctors == {Vue, CtorA, CtorB}
Subs == {CtorA, CtorB}
NoCtor == 0

\* initGlobalAPI: Vue.options with the three asset tables, the built-in
\* component and _base
builtInComponents == "KeepAlive" :> Opaque("KeepAlive")

initGlobalAPI ==
    Let(Alloc(<< >>, NewObj(Null, EmptyMap)), LAMBDA o :
    Let(Alloc(o.h, NewObj(Null, EmptyMap)), LAMBDA c :
    Let(Alloc(Put(c.h, o.v, "components", c.v), NewObj(Null, EmptyMap)), LAMBDA d :
    Let(Alloc(Put(d.h, o.v, "directives", d.v), NewObj(Null, EmptyMap)), LAMBDA f :
    Let(Put(Put(f.h, o.v, "filters", f.v), o.v, "_base", CtorV(Vue)), LAMBDA h1 :
    Let(Alloc(h1, NewObj(Null, builtInComponents)), LAMBDA b :
        [h |-> extend(b.h, c.v, b.v), v |-> o.v]))))))

\* Sub = Super.extend(extendOptions): the caches of a lineage node as they
\* are after its creation
VueExtend(h, cs, sub, super, extendOptions) ==
    Let(mergeOptions(h, cs[super].options, extendOptions, Undef), LAMBDA m :
        LET name == Get(m.h, m.v, "name")
        IN
    Let(IF Truthy(name)
        THEN Put(m.h, Get(m.h, m.v, "components"), name.s, CtorV(sub))
        ELSE m.h, LAMBDA h1 :
    Let(Alloc(h1, NewObj(Null, EmptyMap)), LAMBDA sealed :
        [h |-> extend(sealed.h, sealed.v, m.v),
         cs |-> [cs EXCEPT ![sub] = [super |-> super, options |-> m.v,
                                     superOptions |-> cs[super].options,
                                     extendOptions |-> extendOptions,
                                     sealedOptions |-> sealed.v]]])))

(***************************************************************************)
(* resolveConstructorOptions and resolveModifiedOptions.                   *)
(***************************************************************************)
RECURSIVE modifiedKeys(_, _, _, _, _)
modifiedKeys(h0, modified, latest, sealed, ks) ==
    Let(h0, LAMBDA h :
        IF ks = << >> THEN [h |-> h, v |-> modified]
        ELSE IF Get(h, latest, Head(ks)) # Get(h, sealed, Head(ks))
             THEN Let(IF modified = Undef
                      THEN Alloc(h, NewObj(Null, EmptyMap))
                      ELSE [h |-> h, v |-> modified], LAMBDA m :
                      modifiedKeys(Put(m.h, m.v, Head(ks), Get(h, latest, Head(ks))),
                                   m.v, latest, sealed, Tail(ks)))
             ELSE modifiedKeys(h, modified, latest, sealed, Tail(ks)))

\* a resolveModifiedOptions that finds no late edit
resolveModifiedOptions_None(h, cs, c) == [h |-> h, v |-> Undef]

resolveModifiedOptions(h, cs, c) ==
    modifiedKeys(h, Undef, cs[c].options, cs[c].sealedOptions,
                 SeqOfKeys(ForIn(h, cs[c].options)))

\* a cache test that always sees a change
superOptionsChanged_Always(superOptions, cachedSuperOptions) == TRUE

\* a cache test that never sees a change
superOptionsChanged_Never(superOptions, cachedSuperOptions) == FALSE

\* superOptions !== cachedSuperOptions
superOptionsChanged(superOptions, cachedSuperOptions) ==
    superOptions # cachedSuperOptions

\* Returns the heap, the constructors, the options returned (v) and, for the
\* record, the constructors whose options this call recomputed.
RECURSIVE resolveConstructorOptions(_, _, _)
resolveConstructorOptions(h, cs, c) ==
    IF cs[c].super = NoCtor
    THEN [h |-> h, cs |-> cs, v |-> cs[c].options, recomputed |-> {}]
    ELSE Let(resolveConstructorOptions(h, cs, cs[c].super), LAMBDA s :
         LET superOptions == s.v
             cachedSuperOptions == s.cs[c].superOptions
         IN  IF superOptionsChanged(superOptions, cachedSuperOptions)
             THEN Let([s.cs EXCEPT ![c].superOptions = superOptions], LAMBDA cs1 :
                  Let(resolveModifiedOptions(s.h, cs1, c), LAMBDA modifiedOptions :
                  Let(IF Truthy(modifiedOptions.v)
                      THEN extend(modifiedOptions.h, cs1[c].extendOptions,
                                  modifiedOptions.v)
                      ELSE modifiedOptions.h, LAMBDA h1 :
                  Let(mergeOptions(h1, superOptions, cs1[c].extendOptions, Undef),
                      LAMBDA m :
                      LET name == Get(m.h, m.v, "name")
                      IN  [h |-> IF Truthy(name)
                                 THEN Put(m.h, Get(m.h, m.v, "components"), name.s,
                                          CtorV(c))
                                 ELSE m.h,
                           cs |-> [cs1 EXCEPT ![c].options = m.v],
                           v |-> m.v,
                           recomputed |-> s.recomputed \cup {c}]))))
             ELSE [h |-> s.h, cs |-> s.cs, v |-> s.cs[c].options,
                   recomputed |-> s.recomputed])

(***************************************************************************)
(* The lineage specification: Vue.mixin on the root, direct edits of a     *)
(* subclass's options, and resolveConstructorOptions, in any order.        *)
(***************************************************************************)
ExtendDefs == {EmptyMap, "g" :> Prim(7), "name" :> Str("kid")}
MixKeys == {"f"}
MixVals == {Prim(1), Prim(2)}
EditKeys == {"f"}
EditVals == {Prim(9)}

NoHist == [kind |-> "none", node |-> NoCtor, v |-> Undef, recomputed |-> {},
           again |-> FALSE]

RootCtor(o) ==
    [c \in Ctors |-> [super |-> NoCtor, options |-> IF c = Vue THEN o ELSE Undef,
                      superOptions |-> Undef, extendOptions |-> Undef,
                      sealedOptions |-> Undef]]

\* the lineage Vue <- A <- B built from the extend options ea and eb
Lineage(ea, eb) ==
    Let(initGlobalAPI, LAMBDA g :
    Let(Alloc(g.h, NewObj(Null, ea)), LAMBDA xa :
    Let(VueExtend(xa.h, RootCtor(g.v), CtorA, Vue, xa.v), LAMBDA a :
    Let(Alloc(a.h, NewObj(Null, eb)), LAMBDA xb :
        VueExtend(xb.h, a.cs, CtorB, CtorA, xb.v)))))

Init ==
    \E ea \in ExtendDefs, eb \in ExtendDefs :
        \E b \in {Lineage(ea, eb)} :
            /\ heap = b.h
            /\ ctor = b.cs
            /\ hist = NoHist
            /\ nMixin = 0
            /\ nEdit = 0
            /\ edited = [c \in Ctors |-> {}]
            /\ declared = [c \in Ctors |-> IF c = CtorA THEN DOMAIN ea
                                            ELSE IF c = CtorB THEN DOMAIN eb ELSE {}]
            /\ pc = "lineage"
            /\ arg = Undef
            /\ out = Undef
            /\ step = 0

\* Vue.mixin(mixin) with mixin = { k: v }
VueMixin(k, v) ==
    /\ nMixin < MaxMixin
    /\ \E mixin \in {Alloc(heap, NewObj(Null, k :> v))} :
       \E m \in {mergeOptions(mixin.h, ctor[Vue].options, mixin.v, Undef)} :
           /\ heap' = m.h
           /\ ctor' = [ctor EXCEPT ![Vue].options = m.v]
    /\ nMixin' = nMixin + 1
    /\ hist' = [NoHist EXCEPT !.kind = "mixin", !.node = Vue]
    /\ UNCHANGED <<nEdit, edited, declared, callVars>>

\* Ctor.options[k] = v written by code outside the engine (a late edit)
LateEdit(c, k, v) ==
    /\ nEdit < MaxEdit
    /\ heap' = Put(heap, ctor[c].options, k, v)
    /\ edited' = [edited EXCEPT ![c] = @ \cup {k}]
    /\ nEdit' = nEdit + 1
    /\ hist' = [NoHist EXCEPT !.kind = "edit", !.node = c]
    /\ UNCHANGED <<ctor, nMixin, declared, callVars>>

Resolve(c) ==
    /\ \E r \in {resolveConstructorOptions(heap, ctor, c)} :
           /\ heap' = r.h
           /\ ctor' = r.cs
           /\ hist' = [kind |-> "resolve", node |-> c, v |-> r.v,
                       recomputed |-> r.recomputed,
                       again |-> (hist.kind = "resolve" /\ hist.node = c)]
    /\ UNCHANGED <<nMixin, nEdit, edited, declared, callVars>>

Next ==
    \/ \E k \in MixKeys, v \in MixVals : VueMixin(k, v)
    \/ \E c \in Subs, k \in EditKeys, v \in EditVals : LateEdit(c, k, v)
    \/ \E c \in Ctors : Resolve(c)

Spec == Init /\ [][Next]_vars

(***************************************************************************)
(* The resolver's properties, checked under Spec.                          *)
(***************************************************************************)
\* fields of the lineage that take the default strategy
LineageKeys == {"f", "g"}

SuperOf(c) == ctor[c].super

\* C1: after resolveConstructorOptions(node) returns, every field the node
\* never declared nor edited has, in the options returned, the value it has in
\* the current options of the node's super, whatever Vue.mixin calls and
\* resolutions came before (stated for runs without late edits).
C1_ReflectsAncestor ==
    (hist.kind = "resolve" /\ nEdit = 0 /\ SuperOf(hist.node) # NoCtor) =>
        /\ hist.v = ctor[hist.node].options
        /\ \A k \in LineageKeys \ declared[hist.node] :
               Get(heap, hist.v, k) = Get(heap, ctor[SuperOf(hist.node)].options, k)

\* C2: a resolveConstructorOptions(node) that directly follows another one of
\* the same node returns the same reference and changes neither a constructor
\* nor an object.
C2_CacheHit ==
    [][(hist.kind = "resolve" /\ hist'.kind = "resolve" /\ hist'.node = hist.node)
          => (hist'.v = hist.v /\ heap' = heap /\ ctor' = ctor)]_vars

\* a second resolution in a row of a subclass, after Vue.options was replaced
C2_Witness ==
    hist.kind = "resolve" /\ hist.again /\ hist.node = CtorB /\ nMixin > 0

\* C3: when a resolution recomputes the options of c, a default-strategy field
\* of c's options whose value differed from the one in c's sealedOptions
\* is afterwards in c's extendOptions and in c's new options, with that value.
C3_LateEditSurvives ==
    [][\A c \in Subs, k \in LineageKeys :
          (/\ hist'.kind = "resolve"
           /\ c \in hist'.recomputed
           /\ k \in ForIn(heap, ctor[c].options)
           /\ Get(heap, ctor[c].options, k) # Get(heap, ctor[c].sealedOptions, k))
          => /\ Get(heap', ctor'[c].extendOptions, k) = Get(heap, ctor[c].options, k)
             /\ Get(heap', ctor'[c].options, k) = Get(heap, ctor[c].options, k)]_vars

\* a constructor whose options were edited and then recomputed carries the
\* edited value in its new options though it never declared the field
C3_Witness ==
    /\ hist.kind = "resolve"
    /\ \E c \in hist.recomputed :
          /\ "f" \in edited[c] \ declared[c]
          /\ Get(heap, ctor[c].options, "f") \in EditVals
          /\ Get(heap, ctor[c].extendOptions, "f") \in EditVals

\* o is a shallow copy of p
ShallowCopy(h, o, p) ==
    /\ ForIn(h, o) = ForIn(h, p)
    /\ \A k \in ForIn(h, p) : Get(h, o, k) = Get(h, p, k)

\* C4: after a resolution, every constructor it recomputed has its super's
\* current options as superOptions, the recomputed result as options, and a
\* shallow copy of that result as sealedOptions.
C4_RecomputeUpdatesCaches ==
    hist.kind = "resolve" =>
        \A c \in hist.recomputed :
            /\ ctor[c].superOptions = ctor[SuperOf(c)].options
            /\ (c = hist.node => ctor[c].options = hist.v)
            /\ ShallowCopy(heap, ctor[c].sealedOptions, ctor[c].options)

(***************************************************************************)
(* The hook specification: a chain of merges of one lifecycle-hook field,  *)
(* as mergeOptions does them along extends, mixins and inheritance: the    *)
(* result of one merge is the parent value of the next.                    *)
(***************************************************************************)
IdleLineage ==
    /\ ctor = RootCtor(Undef)
    /\ hist = NoHist
    /\ nMixin = 0
    /\ nEdit = 0
    /\ edited = [c \in Ctors |-> {}]
    /\ declared = [c \in Ctors |-> {}]

HookA == Fn(11)
HookB == Fn(12)
HookC == Fn(13)
Hooks == {HookA, HookB, HookC}

\* a child's hook field: absent, one callable, or an array of callables
HookChildren ==
    {Undef} \cup Hooks
        \cup {Arr(q) : q \in UNION {[1..n -> Hooks] : n \in 0..MaxHookLen}}

InitHook ==
    /\ IdleLineage
    /\ heap = << >>
    /\ pc = "hook"
    /\ arg = Undef
    /\ out = Undef
    /\ step = 0

\* options[key] = strats[key](parent[key], child[key]) for a hook key
MergeHookField(key, child) ==
    /\ pc = "hook"
    /\ step < MaxChain
    /\ out' = strat(heap, key, out, child, Undef).v
    /\ arg' = child
    /\ hist' = [NoHist EXCEPT !.kind = "hook", !.v = out]
    /\ step' = step + 1
    /\ UNCHANGED <<heap, ctor, nMixin, nEdit, edited, declared, pc>>

NextHook == \E key \in LIFECYCLE_HOOKS, child \in HookChildren : MergeHookField(key, child)

SpecHook == InitHook /\ [][NextHook]_vars

Items(v) == IF v = Undef THEN << >> ELSE IF isArray(v) THEN v.items ELSE << v >>
Elems(q) == {q[i] : i \in 1..Len(q)}
NoDup(q) == \A i, j \in 1..Len(q) : i # j => q[i] # q[j]
FirstIdx(q, x) == CHOOSE i \in 1..Len(q) : q[i] = x /\ \A j \in 1..(i - 1) : q[j] # x

\* C5: merging the parent sequence P (hist.v) with the child C (arg) gives R
\* (out): P, then the elements of C that are not in P, each once, in the order
\* of their first occurrence in C; so no hook is twice in R and the hooks of
\* ancestors come before those of descendants.
C5_HookMerge ==
    hist.kind = "hook" =>
        LET P == Items(hist.v)
            C == Items(arg)
            R == Items(out)
        IN  /\ (out = Undef) <=> (hist.v = Undef /\ ~Truthy(arg))
            /\ NoDup(R)
            /\ Elems(R) = Elems(P) \cup Elems(C)
            /\ Len(P) <= Len(R)
            /\ SubSeq(R, 1, Len(P)) = P
            /\ \A i, j \in (Len(P) + 1)..Len(R) :
                   i < j => FirstIdx(C, R[i]) < FirstIdx(C, R[j])
            /\ (P = << HookA, HookB >> /\ arg = HookC) => R = << HookA, HookB, HookC >>
            /\ (P = << HookA, HookB >> /\ C = << HookA, HookC >>)
                   => R = << HookA, HookB, HookC >>

\* [a, b] merged with the array [a, c], which holds a again, gave [a, b, c]
C5_Witness ==
    /\ hist.kind = "hook"
    /\ hist.v = Arr(<< HookA, HookB >>)
    /\ arg = Arr(<< HookA, HookC >>)
    /\ out = Arr(<< HookA, HookB, HookC >>)

(***************************************************************************)
(* The merge specification: one call mergeOptions(parent, child, vm) with  *)
(* parent the options of an ancestor and child a definition that names     *)
(* extends: P1 and mixins: [M1, M2].                                       *)
(***************************************************************************)
\* The contributors of the default-strategy field f, in the order of the
\* merge; contributor i gives f the value Prim(i).
Ancestor == 1
ExtendsP1 == 2
MixinM1 == 3
MixinM2 == 4
Own == 5
Contributors == {Ancestor, ExtendsP1, MixinM1, MixinM2, Own}

Shapes == {"plain", "propsArr", "propsObj", "dirs", "hooks", "hasBase"}
Carriers == {ExtendsP1, MixinM1, Own}

FField(i, fset) == IF i \in fset THEN "f" :> Prim(i) ELSE EmptyMap

\* the fields a shape adds to the definition that carries it, allocated
ShapeFields(h, shape) ==
    CASE shape = "propsArr" ->
            [h |-> h,
             own |-> ("props" :> Arr(<< Str("some-data"), Str("a") >>))
                     @@ ("inject" :> Arr(<< Str("b") >>))]
      [] shape = "propsObj" ->
            Let(Alloc(h, NewObj(Null, "type" :> Fn(21))), LAMBDA sp :
            Let(Alloc(sp.h, NewObj(Null, ("a" :> Fn(22)) @@ ("some-data" :> sp.v))),
                LAMBDA pr :
            Let(Alloc(pr.h, NewObj(Null, "from" :> Str("y"))), LAMBDA fr :
            Let(Alloc(fr.h, NewObj(Null, ("b" :> Str("x")) @@ ("a" :> fr.v))),
                LAMBDA inj :
                [h |-> inj.h, own |-> ("props" :> pr.v) @@ ("inject" :> inj.v)]))))
      [] shape = "dirs" ->
            Let(Alloc(h, NewObj(Null, "bind" :> Fn(32))), LAMBDA d :
            Let(Alloc(d.h, NewObj(Null, ("x" :> Fn(31)) @@ ("y" :> d.v))), LAMBDA t :
                [h |-> t.h, own |-> "directives" :> t.v]))
      [] shape = "hooks" ->
            [h |-> h, own |-> "created" :> Arr(<< HookA, HookB >>)]
      [] shape = "hasBase" ->
            [h |-> h, own |-> "_base" :> CtorV(Vue)]
      [] OTHER -> [h |-> h, own |-> EmptyMap]

\* the definition of contributor i
AllocDef(h, i, fset, shape, carrier) ==
    Let(IF i = carrier THEN ShapeFields(h, shape) ELSE [h |-> h, own |-> EmptyMap],
        LAMBDA sf : Alloc(sf.h, NewObj(Null, sf.own @@ FField(i, fset))))

\* Vue.options, after Vue.mixin({ f: 1, props: ['n'], created: a }) when the
\* ancestor contributes f
AncestorOptions(fset) ==
    Let(initGlobalAPI, LAMBDA g :
        IF Ancestor \in fset
        THEN Let(Alloc(g.h, NewObj(Null, ("f" :> Prim(Ancestor))
                                          @@ ("props" :> Arr(<< Str("n") >>))
                                          @@ ("created" :> HookA))), LAMBDA x :
                 mergeOptions(x.h, g.v, x.v, Undef))
        ELSE g)

MergeInput(fset, shape, carrier) ==
    Let(AncestorOptions(fset), LAMBDA par :
    Let(AllocDef(par.h, ExtendsP1, fset, shape, carrier), LAMBDA p1 :
    Let(AllocDef(p1.h, MixinM1, fset, shape, carrier), LAMBDA m1 :
    Let(AllocDef(m1.h, MixinM2, fset, shape, carrier), LAMBDA m2 :
    Let(IF carrier = Own THEN ShapeFields(m2.h, shape)
        ELSE [h |-> m2.h, own |-> EmptyMap], LAMBDA sf :
    Let(Alloc(sf.h, NewObj(Null, sf.own @@ FField(Own, fset)
                                 @@ ("extends" :> p1.v)
                                 @@ ("mixins" :> Arr(<< m1.v, m2.v >>)))), LAMBDA ch :
        [h |-> ch.h, parent |-> par.v, child |-> ch.v, defs |-> {p1.v, m1.v, m2.v, ch.v},
         fset |-> fset, shape |-> shape, carrier |-> carrier,
         carrierRef |-> CASE carrier = Own -> ch.v
                            [] carrier = MixinM1 -> m1.v
                            [] OTHER -> p1.v]))))))

InitMerge ==
    /\ IdleLineage
    /\ \E fset \in SUBSET Contributors, shape \in Shapes, carrier \in Carriers :
           \E in \in {MergeInput(fset, shape, carrier)} :
               /\ heap = in.h
               /\ arg = [in EXCEPT !.h = << >>]
    /\ pc = "ready"
    /\ out = Undef
    /\ step = 0

\* out = mergeOptions(parent, child, vm)
CallMergeOptions(vm) ==
    /\ pc = "ready"
    /\ \E m \in {mergeOptions(heap, arg.parent, arg.child, vm)} :
           /\ heap' = m.h
           /\ out' = [v |-> m.v, parent |-> m.parent, vm |-> vm]
    /\ pc' = "done"
    /\ UNCHANGED <<lineageVars, arg, step>>

NextMerge == \E vm \in {Undef, Opaque("vm")} : CallMergeOptions(vm)

SpecMerge == InitMerge /\ [][NextMerge]_vars

(***************************************************************************)
(* Properties of one mergeOptions call, checked under SpecMerge.           *)
(***************************************************************************)
MaxOf(S) == CHOOSE x \in S : \A y \in S : y <= x

\* the child is a raw definition: it has no _base
RawChild == ~(arg.shape = "hasBase" /\ arg.carrier = Own)

\* C6: for a raw child with extends: P1 and mixins: [M1, M2], the merged value
\* of the default-strategy field f is the value of the last contributor that
\* defines f in the order ancestor, P1, M1, M2, own; f is absent when none does.
C6_Precedence ==
    (pc = "done" /\ RawChild) =>
        IF arg.fset = {}
        THEN "f" \notin ForIn(heap, out.v)
        ELSE Get(heap, out.v, "f") = Prim(MaxOf(arg.fset))

\* M1 wins over P1 and the ancestor when neither M2 nor the child defines f
C6_Witness ==
    /\ pc = "done"
    /\ RawChild
    /\ arg.fset = {Ancestor, ExtendsP1, MixinM1}
    /\ Get(heap, out.v, "f") = Prim(MixinM1)

\* the objects there before the call that are directives tables of a definition
DirectiveTables(h) ==
    {Get(h, d, "directives") : d \in {x \in arg.defs : IsRef(Get(h, x, "directives"))}}

DefaultKeys == {"f", "g", "name", "_base", "extends", "mixins", "el", "propsData"}
HashKeys == {"props", "methods", "inject", "computed"}

\* C10: the result's keys are exactly the keys of child and of parent (parent
\* after extends and mixins were folded in, out.parent), and each key's value
\* is what its strategy makes of (parent[key], child[key]): the child's value
\* if defined, else the parent's, for a default-strategy key; the hooks of
\* both, each once, for a hook key; a new table that delegates to the parent's
\* and holds the child's entries for an asset key; the child's table, or a new
\* one with the entries of both where the child's win, for props and inject.
C10_KeyUnion ==
    pc = "done" =>
        LET P == out.parent
            C == arg.child
            R == out.v
            pv(k) == Get(heap, P, k)
            cv(k) == Get(heap, C, k)
            rv(k) == Get(heap, R, k)
        IN  /\ OwnKeys(heap, R) = ForIn(heap, P) \cup ForIn(heap, C)
            /\ heap[R.v].proto = Null
            /\ \A k \in OwnKeys(heap, R) \cap DefaultKeys :
                   rv(k) = IF cv(k) # Undef THEN cv(k) ELSE pv(k)
            /\ \A k \in OwnKeys(heap, R) \cap LIFECYCLE_HOOKS :
                   /\ NoDup(Items(rv(k)))
                   /\ Elems(Items(rv(k))) = Elems(Items(pv(k))) \cup Elems(Items(cv(k)))
            /\ \A k \in OwnKeys(heap, R) \cap ASSET_KEYS :
                   /\ rv(k) \notin {pv(k), cv(k)}
                   /\ heap[rv(k).v].proto = (IF Truthy(pv(k)) THEN pv(k) ELSE Null)
                   /\ OwnKeys(heap, rv(k)) = ForIn(heap, cv(k))
                   /\ \A n \in ForIn(heap, cv(k)) :
                          Get(heap, rv(k), n) = Get(heap, cv(k), n)
            /\ \A k \in OwnKeys(heap, R) \cap HashKeys :
                   IF ~Truthy(pv(k)) THEN rv(k) = cv(k)
                   ELSE /\ rv(k) \notin {pv(k), cv(k)}
                        /\ OwnKeys(heap, rv(k)) = ForIn(heap, pv(k)) \cup ForIn(heap, cv(k))
                        /\ \A n \in OwnKeys(heap, rv(k)) :
                               Get(heap, rv(k), n) =
                                   IF n \in ForIn(heap, cv(k))
                                   THEN Get(heap, cv(k), n) ELSE Get(heap, pv(k), n)

\* a result with a key only the child has (mixins), a key only the parent
\* has (created) and a key of both (props)
C10_Witness ==
    /\ pc = "done"
    /\ RawChild
    /\ arg.shape = "propsArr"
    /\ arg.carrier = Own
    /\ Ancestor \in arg.fset
    /\ "mixins" \notin ForIn(heap, out.parent)
    /\ "created" \notin ForIn(heap, arg.child)
    /\ {"mixins", "created", "props"} \subseteq OwnKeys(heap, out.v)

(***************************************************************************)
(* The data specification: the data or provide strategy builds a value     *)
(* from a parent side and a child side, and the value, when it is a        *)
(* function, is invoked once per instance (initState, initProvide).        *)
(***************************************************************************)
\* a side: absent, a function of the inputs, or the plain object such a
\* function returns
Sides ==
    {[shape |-> "absent", n |-> 0]}
        \cup {[shape |-> sh, n |-> n] : sh \in {"callable", "plain"}, n \in 1..3}

AllocSide(h, s) ==
    CASE s.shape = "absent" -> [h |-> h, v |-> Undef]
      [] s.shape = "callable" -> [h |-> h, v |-> Fn(s.n)]
      [] OTHER -> AllocBody(h, FnBody(s.n))

\* strats.data never returns a plain object without vm, so the parent side of
\* data is absent or a function; provide has no such guard
InitData ==
    /\ IdleLineage
    /\ \E key \in {"data", "provide"}, vm \in {Undef, Opaque("vm")},
          ps \in Sides, cs \in Sides :
           /\ key = "data" => ps.shape # "plain"
           /\ \E p \in {AllocSide(<< >>, ps)} :
              \E c \in {AllocSide(p.h, cs)} :
                  /\ heap = c.h
                  /\ arg = [key |-> key, vm |-> vm, parentVal |-> p.v,
                            childVal |-> c.v, n0 |-> Len(c.h)]
    /\ pc = "ready"
    /\ out = [f |-> Undef, r |-> << >>]
    /\ step = 0

\* options[key] = strats[key](parent[key], child[key], vm, key)
BuildFactory ==
    /\ pc = "ready"
    /\ \E m \in {strat(heap, arg.key, arg.parentVal, arg.childVal, arg.vm)} :
           /\ heap' = m.h
           /\ out' = [out EXCEPT !.f = m.v]
    /\ pc' = "built"
    /\ UNCHANGED <<lineageVars, arg, step>>

\* data.call(vm, vm) of initData, provide.call(vm) of initProvide: one
\* instance evaluates the merged value
InvokeFactory ==
    /\ pc \in {"built", "called"}
    /\ isFunction(heap, out.f)
    /\ step < MaxCalls
    /\ \E r \in {Call(heap, out.f)} :
           /\ heap' = r.h
           /\ out' = [out EXCEPT !.r = Append(@, r.v)]
    /\ pc' = "called"
    /\ step' = step + 1
    /\ UNCHANGED <<lineageVars, arg>>

NextData == BuildFactory \/ InvokeFactory

SpecData == InitData /\ [][NextData]_vars

\* the objects one can reach from v, v included
RECURSIVE Reach(_, _)
Reach(h, v) ==
    IF ~IsRef(v) THEN {}
    ELSE {v.v} \cup UNION {Reach(h, h[v.v].own[k]) : k \in OwnKeys(h, v)}

\* the content of an object as a map that holds the content of a nested
\* object in the place of the reference to it
RECURSIVE Content(_, _)
Content(h, v) ==
    IF ~IsRef(v) THEN v
    ELSE [k \in OwnKeys(h, v) |-> Content(h, h[v.v].own[k])]

IsMap(x) == "t" \notin DOMAIN x

\* c with p deep-merged into it, on contents
RECURSIVE DeepMerge(_, _)
DeepMerge(c, p) ==
    [k \in DOMAIN c \cup DOMAIN p |->
        IF k \notin DOMAIN c THEN p[k]
        ELSE IF k \notin DOMAIN p THEN c[k]
        ELSE IF IsMap(c[k]) /\ IsMap(p[k]) THEN DeepMerge(c[k], p[k])
        ELSE c[k]]

\* what evaluating a side gives, seen from heap h: the object literal of a
\* function of the inputs, the side itself otherwise
BodyContent(n) ==
    IF FnBody(n).sub = EmptyMap THEN FnBody(n).own
    ELSE ("n" :> FnBody(n).sub) @@ FnBody(n).own

Eval(h, side) == IF side.t = "fn" THEN BodyContent(side.v) ELSE Content(h, side)

LastOf(q) == q[Len(q)]

\* C8: whenever a merged factory is invoked after an earlier invocation, the
\* object it returns and the objects nested in it are none of the objects
\* returned by, or nested in the result of, an earlier invocation; and no
\* invocation changes an object of the two sides.
C8_NoSharedStructure ==
    [][(pc' = "called" /\ step' = step + 1) =>
          /\ \A i \in 1..arg.n0 : heap'[i] = heap[i]
          /\ \A j \in 1..Len(out.r) :
                Reach(heap', out.r[j]) \cap Reach(heap', LastOf(out'.r)) = {}]_vars

DataNoVm == arg.key = "data" /\ ~Truthy(arg.vm)

\* both sides present and the child a function: the value built is a new
\* function
MergedFactory(h, f) ==
    /\ Truthy(arg.parentVal)
    /\ isFunction(h, arg.childVal)
    /\ IsRef(f)
    /\ f.v > arg.n0

\* what invoking a merged factory must give: the child's result with the
\* parent's result deep-merged into it
InvokedMerges ==
    (pc' = "called" /\ step' = step + 1 /\ MergedFactory(heap, out.f)) =>
        Content(heap', LastOf(out'.r))
            = DeepMerge(Eval(heap, arg.childVal), Eval(heap, arg.parentVal))

\* C9 as claimed: data merged without vm is the other side when one side is
\* absent, and a new factory when both are present, whatever the child is, a
\* function or a plain object; the factory evaluates neither side when built
\* and, invoked, returns the child's result with the parent's deep-merged in.
C9_DataNoVm ==
    [][DataNoVm =>
          /\ (pc = "ready" /\ pc' = "built") =>
                /\ \A i \in 1..Len(heap) : heap'[i] = heap[i]
                /\ IF ~Truthy(arg.childVal) THEN out'.f = arg.parentVal
                   ELSE IF ~Truthy(arg.parentVal) THEN out'.f = arg.childVal
                   ELSE /\ out'.f \notin {arg.parentVal, arg.childVal}
                        /\ isFunction(heap', out'.f)
          /\ InvokedMerges]_vars

\* C9 as amended: data merged without vm is the parent's value, unchanged, when
\* the child is absent or is present and not a function (a plain object child
\* is ignored); with a child that is a function it is the child when the
\* parent is absent, and else a new factory that evaluates neither side when
\* built and, invoked, returns the child's result with the parent's result
\* deep-merged into it.
C9_DataNoVmFunctionChild ==
    [][DataNoVm =>
          /\ (pc = "ready" /\ pc' = "built") =>
                /\ \A i \in 1..Len(heap) : heap'[i] = heap[i]
                /\ IF ~isFunction(heap, arg.childVal) THEN out'.f = arg.parentVal
                   ELSE IF ~Truthy(arg.parentVal) THEN out'.f = arg.childVal
                   ELSE /\ out'.f \notin {arg.parentVal, arg.childVal}
                        /\ MergedFactory(heap', out'.f)
                        /\ isFunction(heap', out'.f)
          /\ InvokedMerges]_vars

\* the factory of the functions returning { b: 2, n: { x: 1 } } (child) and
\* { a: 3, n: { y: 2 } } (parent) was invoked and gave
\* { b: 2, a: 3, n: { x: 1, y: 2 } }
C9_Witness ==
    /\ pc = "called"
    /\ DataNoVm
    /\ arg.childVal = Fn(2)
    /\ arg.parentVal = Fn(3)
    /\ MergedFactory(heap, out.f)
    /\ Content(heap, LastOf(out.r))
         = [k \in {"a", "b", "n"} |->
               CASE k = "a" -> Prim(3)
                 [] k = "b" -> Prim(2)
                 [] OTHER -> [j \in {"x", "y"} |-> IF j = "x" THEN Prim(1) ELSE Prim(2)]]

(***************************************************************************)
(* The asset specification: a table derived by mergeAssets from a parent   *)
(* table (which itself delegates to a root table), later registrations in  *)
(* the ancestors' tables, and resolveAsset on the derived options.         *)
(***************************************************************************)
capitalize(s) ==
    CASE s = "myWidget" -> "MyWidget"
      [] s = "kid" -> "Kid"
      [] s = "someData" -> "SomeData"
      [] OTHER -> s

\* a || b
Or(a, b) == IF Truthy(a) THEN a ELSE b

\* a resolveAsset that reads through the prototype chain first
resolveAsset_ChainFirst(h, options, type, id) ==
    IF id.t # "str" THEN Undef
    ELSE LET assets == Get(h, options, type)
             camelizedId == camelize(id.s)
             PascalCaseId == capitalize(camelizedId)
         IN  Or(Get(h, assets, id.s),
                Or(Get(h, assets, camelizedId), Get(h, assets, PascalCaseId)))

resolveAsset(h, options, type, id) ==
    IF id.t # "str" THEN Undef
    ELSE LET assets == Get(h, options, type)
             camelizedId == camelize(id.s)
             PascalCaseId == capitalize(camelizedId)
         IN  IF hasOwn(h, assets, id.s) THEN Get(h, assets, id.s)
             ELSE IF hasOwn(h, assets, camelizedId) THEN Get(h, assets, camelizedId)
             ELSE IF hasOwn(h, assets, PascalCaseId) THEN Get(h, assets, PascalCaseId)
             ELSE Or(Get(h, assets, id.s),
                     Or(Get(h, assets, camelizedId), Get(h, assets, PascalCaseId)))

AssetNames == {"my-widget", "myWidget", "MyWidget"}

\* the definition registered under name by owner
AssetDef(owner, name) == [t |-> "asset", owner |-> owner, name |-> name]

AssetTable(owner, names) == [n \in names |-> AssetDef(owner, n)]

\* what resolveAsset is asked for: the names, and an id that is no string
AssetIds == {Str(n) : n \in AssetNames} \cup {Prim(5)}

\* the ancestors whose tables get late registrations
Ancestors == {"root", "parent"}

InitAsset ==
    /\ IdleLineage
    /\ \E gs \in SUBSET AssetNames, ps \in SUBSET AssetNames, cs \in SUBSET AssetNames :
       \E g \in {Alloc(<< >>, NewObj(Null, AssetTable("root", gs)))} :
       \E pt \in {Alloc(g.h, NewObj(g.v, AssetTable("parent", ps)))} :
       \E po \in {Alloc(pt.h, NewObj(Null, "components" :> pt.v))} :
       \E ct \in {Alloc(po.h, NewObj(Null, AssetTable("child", cs)))} :
       \E cd \in {Alloc(ct.h, NewObj(Null, "components" :> ct.v))} :
           /\ heap = cd.h
           /\ arg = [root |-> g.v, parent |-> pt.v, parentOptions |-> po.v,
                     childTable |-> ct.v, child |-> cd.v, cs |-> cs]
    /\ pc = "ready"
    /\ out = Undef
    /\ step = 0

\* options.components = strats.components(parent.components, child.components)
DeriveTable ==
    /\ pc = "ready"
    /\ \E r \in {strat(heap, "components", Get(heap, arg.parentOptions, "components"),
                       Get(heap, arg.child, "components"), Undef)} :
       \E o \in {Alloc(r.h, NewObj(Null, "components" :> r.v))} :
           /\ heap' = o.h
           /\ out' = [options |-> o.v, table |-> r.v]
    /\ pc' = "derived"
    /\ hist' = [NoHist EXCEPT !.kind = "derive"]
    /\ UNCHANGED <<ctor, nMixin, nEdit, edited, declared, arg, step>>

\* Vue.component(name, definition) on an ancestor, after the derivation
RegisterAsset(anc, name) ==
    /\ pc = "derived"
    /\ step < MaxRegister
    /\ heap' = Put(heap, IF anc = "root" THEN arg.root ELSE arg.parent, name,
                   AssetDef(IF anc = "root" THEN "lateRoot" ELSE "lateParent", name))
    /\ hist' = [NoHist EXCEPT !.kind = "register"]
    /\ step' = step + 1
    /\ UNCHANGED <<ctor, nMixin, nEdit, edited, declared, arg, out, pc>>

\* resolveAsset(options, 'components', id)
LookupAsset(id) ==
    /\ pc = "derived"
    /\ hist' = [NoHist EXCEPT !.kind = "asset", !.node = id,
                              !.v = resolveAsset(heap, out.options, "components", id)]
    /\ UNCHANGED <<heap, ctor, nMixin, nEdit, edited, declared, arg, out, pc, step>>

NextAsset ==
    \/ DeriveTable
    \/ \E anc \in Ancestors, name \in AssetNames : RegisterAsset(anc, name)
    \/ \E id \in AssetIds : LookupAsset(id)

SpecAsset == InitAsset /\ [][NextAsset]_vars

\* C11: the table mergeAssets derives delegates to the parent's table itself:
\* reading a name through it gives the child's entry when the child has one,
\* and else whatever the parent's table gives at that moment, entries
\* registered after the derivation included; and no ancestor's table ever
\* holds an entry of the child.
C11_Delegates ==
    pc = "derived" =>
        /\ heap[out.table.v].proto = arg.parent
        /\ out.table \notin {arg.parent, arg.childTable}
        /\ \A name \in AssetNames :
              Get(heap, out.table, name) =
                  IF name \in arg.cs THEN AssetDef("child", name)
                  ELSE Get(heap, arg.parent, name)
        /\ \A t \in {arg.parent, arg.root} : \A name \in OwnKeys(heap, t) :
              heap[t.v].own[name].owner # "child"

\* myWidget was in no table at the derivation, was registered in the parent's
\* table afterwards, and is found through the derived table
C11_Witness ==
    /\ pc = "derived"
    /\ "myWidget" \notin arg.cs
    /\ heap[arg.parent.v].proto = arg.root
    /\ "myWidget" \notin OwnKeys(heap, arg.root)
    /\ OwnKeys(heap, out.table) = arg.cs
    /\ Get(heap, out.table, "myWidget") = AssetDef("lateParent", "myWidget")

\* the three names resolveAsset tries for a name, in order
Variants(n) ==
    CASE n = "my-widget" -> << "my-widget", "myWidget", "MyWidget" >>
      [] n = "myWidget" -> << "myWidget", "myWidget", "MyWidget" >>
      [] OTHER -> << n, n, n >>

\* the first element of q that satisfies P, Undef if none does
FirstSuch(q, P(_)) ==
    IF \E i \in 1..Len(q) : P(q[i])
    THEN q[CHOOSE i \in 1..Len(q) : P(q[i]) /\ \A j \in 1..(i - 1) : ~P(q[j])]
    ELSE "none"

\* C12: resolveAsset returns the local entry of the first of the exact, the
\* camelized and the capitalized camelized name that has a local entry; only
\* when none has one, the entry the delegation chain gives for the first of
\* the three names it has an entry for; nothing when there is none, and
\* nothing for an id that is not a string.
C12_ResolveAsset ==
    hist.kind = "asset" =>
        IF hist.node.t # "str" THEN hist.v = Undef
        ELSE LET V == Variants(hist.node.s)
                 local == FirstSuch(V, LAMBDA n : n \in OwnKeys(heap, out.table))
                 chain == FirstSuch(V, LAMBDA n :
                              \/ n \in OwnKeys(heap, arg.parent)
                              \/ n \in OwnKeys(heap, arg.root))
             IN  IF local # "none" THEN hist.v = heap[out.table.v].own[local]
                 ELSE IF chain # "none"
                      THEN hist.v = IF chain \in OwnKeys(heap, arg.parent)
                                    THEN heap[arg.parent.v].own[chain]
                                    ELSE heap[arg.root.v].own[chain]
                      ELSE hist.v = Undef

\* 'my-widget' is asked for, the parent's table has 'my-widget', the derived
\* table has only a local 'myWidget': the local entry is returned
C12_Witness ==
    /\ hist.kind = "asset"
    /\ hist.node = Str("my-widget")
    /\ OwnKeys(heap, out.table) = {"myWidget"}
    /\ "my-widget" \in OwnKeys(heap, arg.parent)
    /\ hist.v = AssetDef("child", "myWidget")

(***************************************************************************)
(* The normalizer specification: the three normalizers of mergeOptions run *)
(* on one child definition, and run again on the definition they left.     *)
(***************************************************************************)
PropsShapes == 1..7
InjectShapes == 1..6
DirectiveShapes == 1..4

\* the props field of a definition: absent, array syntax (with an element
\* that is no string, or empty), object syntax (with two spellings of one
\* name), or neither an array nor an object
AllocProps(h, i) ==
    CASE i = 1 -> [h |-> h, own |-> EmptyMap]
      [] i = 2 -> [h |-> h, own |-> "props" :> Arr(<< Str("some-data"), Str("a") >>)]
      [] i = 3 -> [h |-> h, own |-> "props" :> Arr(<< Str("a"), Prim(3) >>)]
      [] i = 4 -> [h |-> h, own |-> "props" :> Arr(<< >>)]
      [] i = 5 ->
            Let(Alloc(h, NewObj(Null, "type" :> Fn(21))), LAMBDA sp :
            Let(Alloc(sp.h, NewObj(Null, ("a" :> Fn(22)) @@ ("some-data" :> sp.v))),
                LAMBDA pr : [h |-> pr.h, own |-> "props" :> pr.v]))
      [] i = 6 ->
            Let(Alloc(h, NewObj(Null, "type" :> Fn(21))), LAMBDA sp :
            Let(Alloc(sp.h, NewObj(Null, ("some-data" :> Fn(22)) @@ ("someData" :> sp.v))),
                LAMBDA pr : [h |-> pr.h, own |-> "props" :> pr.v]))
      [] OTHER -> [h |-> h, own |-> "props" :> Prim(5)]

\* the inject field: absent, array syntax, object syntax (a name, an object
\* with from, an object without from), or neither
AllocInject(h, i) ==
    CASE i = 1 -> [h |-> h, own |-> EmptyMap]
      [] i = 2 -> [h |-> h, own |-> "inject" :> Arr(<< Str("b") >>)]
      [] i = 3 -> [h |-> h, own |-> "inject" :> Arr(<< Str("a"), Str("b") >>)]
      [] i = 4 ->
            Let(Alloc(h, NewObj(Null, "from" :> Str("y"))), LAMBDA fr :
            Let(Alloc(fr.h, NewObj(Null, ("b" :> Str("x")) @@ ("a" :> fr.v))),
                LAMBDA inj : [h |-> inj.h, own |-> "inject" :> inj.v]))
      [] i = 5 ->
            Let(Alloc(h, NewObj(Null, "x" :> Prim(1))), LAMBDA fr :
            Let(Alloc(fr.h, NewObj(Null, "a" :> fr.v)),
                LAMBDA inj : [h |-> inj.h, own |-> "inject" :> inj.v]))
      [] OTHER -> [h |-> h, own |-> "inject" :> Prim(5)]

\* the directives field: absent, a function, a function and an object, an
\* object
AllocDirectives(h, i) ==
    CASE i = 1 -> [h |-> h, own |-> EmptyMap]
      [] i = 2 ->
            Let(Alloc(h, NewObj(Null, "x" :> Fn(31))), LAMBDA t :
                [h |-> t.h, own |-> "directives" :> t.v])
      [] i = 3 ->
            Let(Alloc(h, NewObj(Null, "bind" :> Fn(32))), LAMBDA d :
            Let(Alloc(d.h, NewObj(Null, ("x" :> Fn(31)) @@ ("y" :> d.v))), LAMBDA t :
                [h |-> t.h, own |-> "directives" :> t.v]))
      [] OTHER ->
            Let(Alloc(h, NewObj(Null, ("bind" :> Fn(32)) @@ ("update" :> Fn(33)))),
                LAMBDA d :
            Let(Alloc(d.h, NewObj(Null, "y" :> d.v)), LAMBDA t :
                [h |-> t.h, own |-> "directives" :> t.v]))

InitNorm ==
    /\ IdleLineage
    /\ \E ps \in PropsShapes, is \in InjectShapes, ds \in DirectiveShapes :
       \E p \in {AllocProps(<< >>, ps)} :
       \E i \in {AllocInject(p.h, is)} :
       \E d \in {AllocDirectives(i.h, ds)} :
       \E ch \in {Alloc(d.h, NewObj(Null, p.own @@ i.own @@ d.own))} :
           /\ heap = ch.h
           /\ arg = [child |-> ch.v, props |-> ps, inject |-> is, directives |-> ds]
    /\ pc = "norm"
    /\ out = Undef
    /\ step = 0

\* normalizeProps(child, vm); normalizeInject(child, vm);
\* normalizeDirectives(child)
Normalize ==
    /\ pc = "norm"
    /\ step < MaxNormalize
    /\ heap' = normalizeDirectives(normalizeInject(normalizeProps(heap, arg.child),
                                                   arg.child), arg.child)
    /\ step' = step + 1
    /\ UNCHANGED <<lineageVars, arg, out, pc>>

NextNorm == Normalize

SpecNorm == InitNorm /\ [][NextNorm]_vars

NormalizedFields == {"props", "inject", "directives"}

\* C13: running the normalizers on a definition they have already run on
\* leaves props, inject and directives structurally equal to what they were.
C13_Idempotent ==
    [][(step >= 1 /\ step' = step + 1) =>
          \A k \in NormalizedFields :
              Content(heap', Get(heap', arg.child, k))
                  = Content(heap, Get(heap, arg.child, k))]_vars

\* the second run on props: ['some-data', 'a'], inject in object syntax and a
\* function directive has happened; props is { someData: { type: null },
\* a: { type: null } }
C13_Witness ==
    /\ pc = "norm"
    /\ step = 2
    /\ arg.props = 2
    /\ arg.inject = 4
    /\ arg.directives = 3
    /\ Content(heap, Get(heap, arg.child, "props"))
         = [k \in {"someData", "a"} |-> [j \in {"type"} |-> Null]]
    /\ Content(heap, Get(heap, arg.child, "directives"))["x"]
         = [j \in {"bind", "update"} |-> Fn(31)]

(***************************************************************************)
(* The watch specification: a chain of merges of the watch field, the      *)
(* result of one merge being the parent value of the next.                 *)
(***************************************************************************)
WatchA == Fn(41)
WatchB == Fn(42)

\* what a definition gives for one watched key: nothing, one handler, or an
\* array of handlers
WatchEntries == {Undef, WatchA, WatchB, Arr(<< WatchA, WatchB >>)}

WatchKeys == {"a", "b"}

\* a child's watch field: absent, or a table over the watched keys
WatchChildren == {Undef} \cup [WatchKeys -> WatchEntries]

AllocWatch(h, w) ==
    IF w = Undef THEN [h |-> h, v |-> Undef]
    ELSE Alloc(h, NewObj(Null, [k \in {x \in WatchKeys : w[x] # Undef} |-> w[k]]))

InitWatch ==
    /\ IdleLineage
    /\ heap = << >>
    /\ pc = "watch"
    /\ arg = Undef
    /\ out = Undef
    /\ step = 0

\* options.watch = strats.watch(parent.watch, child.watch)
MergeWatchField(w) ==
    /\ pc = "watch"
    /\ step < MaxChain
    /\ \E c \in {AllocWatch(heap, w)} :
       \E r \in {strat(c.h, "watch", out, c.v, Undef)} :
           /\ heap' = r.h
           /\ out' = r.v
           /\ arg' = c.v
    /\ hist' = [NoHist EXCEPT !.kind = "watch", !.v = out]
    /\ step' = step + 1
    /\ UNCHANGED <<ctor, nMixin, nEdit, edited, declared, pc>>

NextWatch == \E w \in WatchChildren : MergeWatchField(w)

SpecWatch == InitWatch /\ [][NextWatch]_vars

\* C14 as claimed: the merged watch field maps every key of the parent's or
\* the child's watch field to a sequence: the parent's handlers for the key
\* followed by the child's.
C14_WatchSequences ==
    hist.kind = "watch" =>
        \A k \in ForIn(heap, hist.v) \cup ForIn(heap, arg) :
            /\ isArray(Get(heap, out, k))
            /\ Get(heap, out, k).items
                 = Items(Get(heap, hist.v, k)) \o Items(Get(heap, arg, k))

\* C14 as amended: with both watch fields present the result is a new table
\* over the keys of both, in which a key of the child maps to the sequence of
\* the parent's handlers for it followed by the child's, and a key the child
\* lacks keeps the parent's value as it is (a single handler stays single);
\* with the parent's field absent the result is the child's table itself,
\* unchanged; with the child's field absent it is a new empty table that
\* delegates to the parent's.
C14_WatchMerge ==
    hist.kind = "watch" =>
        LET P == hist.v
            C == arg
            R == out
        IN  IF ~Truthy(C)
            THEN /\ R \notin {P, C}
                 /\ OwnKeys(heap, R) = {}
                 /\ heap[R.v].proto = (IF Truthy(P) THEN P ELSE Null)
            ELSE IF ~Truthy(P) THEN R = C
            ELSE /\ R \notin {P, C}
                 /\ OwnKeys(heap, R) = ForIn(heap, P) \cup ForIn(heap, C)
                 /\ \A k \in ForIn(heap, C) :
                       /\ isArray(Get(heap, R, k))
                       /\ Get(heap, R, k).items
                            = Items(Get(heap, P, k)) \o Items(Get(heap, C, k))
                 /\ \A k \in ForIn(heap, P) \ ForIn(heap, C) :
                       Get(heap, R, k) = Get(heap, P, k)

\* parent { a: A } (a single handler, b absent) merged with child
\* { a: [A, B], b: B }: a maps to [A, A, B] and b to [B]
C14_Witness ==
    /\ hist.kind = "watch"
    /\ Truthy(hist.v)
    /\ Truthy(arg)
    /\ Get(heap, hist.v, "a") = WatchA
    /\ Get(heap, hist.v, "b") = Undef
    /\ Get(heap, arg, "a") = Arr(<< WatchA, WatchB >>)
    /\ Get(heap, out, "a") = Arr(<< WatchA, WatchA, WatchB >>)
    /\ Get(heap, out, "b") = Arr(<< WatchB >>)

(***************************************************************************)
(* Further properties of the resolver, checked under Spec.                 *)
(***************************************************************************)
\* the constructors above c
RECURSIVE AncestorsOf(_)
AncestorsOf(c) ==
    IF SuperOf(c) = NoCtor THEN {} ELSE {SuperOf(c)} \cup AncestorsOf(SuperOf(c))

ComponentsOf(c) == Get(heap, ctor[c].options, "components")

\* C15: when resolveConstructorOptions has recomputed the options of a
\* constructor and these have a name n, the constructor is the local entry n
\* of its own components table, resolveAsset finds it there, and no
\* components table of a constructor above it holds it.
C15_SelfRegistered ==
    hist.kind = "resolve" =>
        \A c \in hist.recomputed :
            LET n == Get(heap, ctor[c].options, "name")
            IN  Truthy(n) =>
                    /\ hasOwn(heap, ComponentsOf(c), n.s)
                    /\ heap[ComponentsOf(c).v].own[n.s] = CtorV(c)
                    /\ resolveAsset(heap, ctor[c].options, "components", n) = CtorV(c)
                    /\ \A a \in AncestorsOf(c) :
                           /\ ComponentsOf(a) # ComponentsOf(c)
                           /\ \A k \in OwnKeys(heap, ComponentsOf(a)) :
                                  heap[ComponentsOf(a).v].own[k] # CtorV(c)

\* B, which declares the name kid as A does, was recomputed: kid is B in B's
\* table and still A in A's
C15_Witness ==
    /\ hist.kind = "resolve"
    /\ hist.node = CtorB
    /\ CtorB \in hist.recomputed
    /\ "name" \in declared[CtorB]
    /\ "name" \in declared[CtorA]
    /\ Get(heap, ComponentsOf(CtorB), "kid") = CtorV(CtorB)
    /\ Get(heap, ComponentsOf(CtorA), "kid") = CtorV(CtorA)

\* C17: right after resolveConstructorOptions(node) has returned, the cached
\* superOptions of node and of every constructor above it that has a super is
\* the very object its super's options now are, whatever mixins, late edits
\* and resolutions came before.
C17_CacheCoherent ==
    hist.kind = "resolve" =>
        \A c \in {hist.node} \cup AncestorsOf(hist.node) :
            SuperOf(c) # NoCtor => ctor[c].superOptions = ctor[SuperOf(c)].options

\* B was resolved after two mixins and a late edit, it was recomputed, and
\* the caches of B and A are the current options of A and Vue
C17_Witness ==
    /\ hist.kind = "resolve"
    /\ hist.node = CtorB
    /\ hist.recomputed = {CtorA, CtorB}
    /\ nMixin = 2
    /\ nEdit = 1
    /\ ctor[CtorB].superOptions = ctor[CtorA].options
    /\ ctor[CtorA].superOptions = ctor[Vue].options

(***************************************************************************)
(* The mergeData specification: one call mergeData(to, from) on two data   *)
(* objects.                                                                *)
(***************************************************************************)
\* A data object has, or has not, the key a, the key n (a number, or an
\* object of one of three forms) and the observer's key __ob__.
DataShapes == [a : BOOLEAN, n : 0..4, ob : BOOLEAN]

\* the values of `to` are built on 1, those of `from` on 2
NestedOf(base, i) ==
    CASE i = 1 -> Prim(base)
      [] i = 2 -> "x" :> Prim(base)
      [] i = 3 -> "y" :> Prim(base)
      [] OTHER -> IF base = 1
                  THEN ("x" :> Prim(base)) @@ ("b" :> ("x" :> Prim(base)))
                  ELSE ("y" :> Prim(base))
                         @@ ("b" :> (("x" :> Prim(base)) @@ ("y" :> Prim(base))))

DataOf(base, sh) ==
    (IF sh.a THEN "a" :> Prim(base) ELSE EmptyMap)
        @@ (IF sh.n # 0 THEN "n" :> NestedOf(base, sh.n) ELSE EmptyMap)
        @@ (IF sh.ob THEN "__ob__" :> Opaque("Observer") ELSE EmptyMap)

\* allocate the object literal with the content m, nested objects first
RECURSIVE AllocMap(_, _)
RECURSIVE AllocMapKeys(_, _, _, _)
AllocMapKeys(h0, m, ks, own) ==
    Let(h0, LAMBDA h :
        IF ks = << >> THEN Alloc(h, NewObj(Null, own))
        ELSE IF IsMap(m[Head(ks)])
             THEN Let(AllocMap(h, m[Head(ks)]), LAMBDA r :
                      AllocMapKeys(r.h, m, Tail(ks), (Head(ks) :> r.v) @@ own))
             ELSE AllocMapKeys(h, m, Tail(ks), (Head(ks) :> m[Head(ks)]) @@ own))

AllocMap(h, m) == AllocMapKeys(h, m, SeqOfKeys(DOMAIN m), EmptyMap)

\* `from` is absent, or an object; with shared, the object under to.n is also
\* the value of from.b
InitMergeData ==
    /\ IdleLineage
    /\ \E ts \in DataShapes, fs \in DataShapes, absent \in BOOLEAN, shared \in BOOLEAN :
           /\ absent => (fs = [a |-> FALSE, n |-> 0, ob |-> FALSE] /\ ~shared)
           /\ shared => ts.n \in 2..4
           /\ \E t \in {AllocMap(<< >>, DataOf(1, ts))} :
              \E f \in {IF absent THEN [h |-> t.h, v |-> Undef]
                        ELSE AllocMap(t.h, DataOf(2, fs))} :
                  /\ heap = IF shared THEN Put(f.h, f.v, "b", Get(f.h, t.v, "n"))
                            ELSE f.h
                  /\ arg = [to |-> t.v, from |-> f.v, shared |-> shared]
    /\ pc = "ready"
    /\ out = Undef
    /\ step = 0

\* out = mergeData(to, from)
CallMergeData ==
    /\ pc = "ready"
    /\ heap' = mergeData(heap, arg.to, arg.from)
    /\ out' = arg.to
    /\ pc' = "done"
    /\ UNCHANGED <<lineageVars, arg, step>>

NextMergeData == CallMergeData

SpecMergeData == InitMergeData /\ [][NextMergeData]_vars

\* the rule of C16 between the heap h before and the heap g after the call,
\* for the object t merged with the object f: t has its keys and those of f
\* except __ob__; a key t lacked has f's value; a key t had keeps its value,
\* and when f has the key too and both values are different plain objects,
\* the rule holds between these
RECURSIVE MergedByRule(_, _, _, _)
MergedByRule(h, g, t, f) ==
    /\ OwnKeys(g, t) = OwnKeys(h, t) \cup (OwnKeys(h, f) \ {"__ob__"})
    /\ \A k \in OwnKeys(g, t) :
          IF k \notin OwnKeys(h, t) THEN g[t.v].own[k] = h[f.v].own[k]
          ELSE /\ g[t.v].own[k] = h[t.v].own[k]
               /\ IF /\ k \in OwnKeys(h, f) \ {"__ob__"}
                     /\ isPlainObject(h, h[t.v].own[k])
                     /\ isPlainObject(h, h[f.v].own[k])
                     /\ h[t.v].own[k] # h[f.v].own[k]
                  THEN MergedByRule(h, g, h[t.v].own[k], h[f.v].own[k])
                  ELSE IsRef(h[t.v].own[k]) =>
                           g[h[t.v].own[k].v] = h[h[t.v].own[k].v]

\* C16: mergeData(to, from) returns to, changed by the rule: the keys of from
\* but __ob__ that to lacks are added with from's values, a key of both with
\* plain objects on both sides is merged by the same rule, any other key of
\* to keeps its value; from, and every object reachable from from only, is
\* left as it was, and nothing at all changes when from is absent.
C16_MergeData ==
    [][(pc = "ready" /\ pc' = "done") =>
          /\ out' = arg.to
          /\ Len(heap') = Len(heap)
          /\ IF ~Truthy(arg.from) THEN heap' = heap
             ELSE /\ MergedByRule(heap, heap', arg.to, arg.from)
                  /\ heap'[arg.from.v] = heap[arg.from.v]
                  /\ \A i \in Reach(heap, arg.from) \ Reach(heap, arg.to) :
                        heap'[i] = heap[i]
                  /\ ~arg.shared =>
                        Content(heap', arg.from) = Content(heap, arg.from)]_vars

\* to = { a: 1, n: { x: 1, b: { x: 1 } } } merged with
\* from = { a: 2, n: { y: 2, b: { x: 2, y: 2 } }, __ob__ }: a is kept, n got y,
\* n.b got y and kept x, __ob__ was not copied
C16_Witness ==
    /\ pc = "done"
    /\ ~arg.shared
    /\ Content(heap, arg.from) = DataOf(2, [a |-> TRUE, n |-> 4, ob |-> TRUE])
    /\ Content(heap, arg.to)
         = ("a" :> Prim(1))
             @@ ("n" :> (("x" :> Prim(1)) @@ ("y" :> Prim(2))
                          @@ ("b" :> (("x" :> Prim(1)) @@ ("y" :> Prim(2))))))

====
